---- MODULE Spec2Model ----
(***************************************************************************)
(* Model of recuperar.py: a Streamlit page that lists the Eleven Labs      *)
(* generation history, keeps the recent items, deals them into the takes   *)
(* a, b and c, downloads each item's audio and packs one ZIP per take.     *)
(*                                                                         *)
(* Time is counted in whole hours.  A history item's 'date' is an ISO-8601 *)
(* string of one fixed layout, either without an offset (parsed to a naive *)
(* datetime) or with a trailing 'Z' (parsed, after the replace on line 30, *)
(* to an offset-aware datetime).  It is modelled by the instant t and the  *)
(* flag aware; one listing uses one layout for all its items.  The item's  *)
(* history_item_id is its position in the listing the service returned.    *)
(***************************************************************************)
EXTENDS Integers, Sequences, FiniteSets, TLC

\* ---------------------------------------------------------------- bounds
MaxRecords == 4       \* longest history listing given to get_recent_history alone
MaxSession == 7       \* longest history listing the service returns in a session
MaxT == 4             \* item instants range over 0..MaxT
MaxWindow == 3        \* widest look-back window tried, in hours (the form allows 24)
MaxFiles == 3         \* longest payload list handed to create_version_zip alone
MaxByte == 2          \* payload bytes range over 0..MaxByte

\* ---------------------------------------------------- program constants
MinHours == 1         \* st.number_input(min_value=1)
ChunkSize == 3        \* range(0, len(recent_items), 3), recent_items[i:i+3]
StatusOK == 200       \* response.status_code == 200

Times == 0 .. MaxT
Now == MaxT           \* datetime.utcnow() read by get_recent_history
Hours == MinHours .. MaxWindow
Keys == {"", "sk"}    \* the API key typed in the form: empty or not

\* A listing of n items: item i carries history_item_id i and the date of
\* instant ts[i], written with the 'Z' (aware) or without it.
Items(ts, aware) ==
    [i \in 1 .. Len(ts) |->
        [history_item_id |-> i, date |-> [t |-> ts[i], aware |-> aware]]]
Listings ==
    UNION {{Items(ts, aware) : ts \in [1 .. n -> Times], aware \in BOOLEAN} :
           n \in 0 .. MaxRecords}

\* The listings of a session come newest first, as the service orders its
\* history, and their items are dated now, at the edge of the narrowest
\* window, or at instant 0, before every window.
SessionTimes == {0, Now - MinHours, Now}
RECURSIVE NewestFirstTimes(_, _)
NewestFirstTimes(n, latest) ==
    IF n = 0 THEN {<<>>}
    ELSE UNION {{<<t>> \o ts : ts \in NewestFirstTimes(n - 1, t)} :
                t \in {u \in SessionTimes : u <= latest}}
SessionListings ==
    UNION {{Items(ts, aware) : ts \in NewestFirstTimes(n, Now), aware \in BOOLEAN} :
           n \in 0 .. MaxSession}

\* The listing call's outcomes: a transport exception, a non-200 status, or
\* status 200 with a body.
ResponsesOf(listings) ==
    {[raised |-> TRUE, status_code |-> 0, history |-> <<>>]}
    \cup {[raised |-> FALSE, status_code |-> 500, history |-> <<>>]}
    \cup {[raised |-> FALSE, status_code |-> StatusOK, history |-> h] : h \in listings}
Responses == ResponsesOf(Listings)
SessionResponses == ResponsesOf(SessionListings)

\* ------------------------------------------------------ get_recent_history
\* Python compares the 'date' strings: the instant's digits decide, and of
\* two strings for the same instant the one without the 'Z' is a proper
\* prefix of the other, hence smaller.
DateLess(d, e) == d.t < e.t \/ (d.t = e.t /\ ~d.aware /\ e.aware)

\* Faulty variant: an unstable insertion, x goes in front of the items whose
\* key equals its own.
RECURSIVE InsertDescUnstable(_, _)
InsertDescUnstable(sorted, x) ==
    IF sorted = <<>> THEN <<x>>
    ELSE IF ~DateLess(x.date, Head(sorted).date) THEN <<x>> \o sorted
    ELSE <<Head(sorted)>> \o InsertDescUnstable(Tail(sorted), x)

\* One insertion of list.sort(key=..., reverse=True): x, which came after
\* every item of sorted in the listing, goes behind the items whose key is
\* not smaller than its own (the sort is stable also when reversed).
RECURSIVE InsertDesc(_, _)
InsertDesc(sorted, x) ==
    IF sorted = <<>> THEN <<x>>
    ELSE IF DateLess(Head(sorted).date, x.date) THEN <<x>> \o sorted
    ELSE <<Head(sorted)>> \o InsertDesc(Tail(sorted), x)

RECURSIVE SortDesc(_)
SortDesc(history) ==
    IF history = <<>> THEN <<>>
    ELSE InsertDesc(SortDesc(SubSeq(history, 1, Len(history) - 1)),
                    history[Len(history)])

\* current_time - item_time <= timedelta(hours=hours_ago), both naive.
InWindow(d, hours_ago) == Now - d.t <= hours_ago

\* The filter loop over the sorted history.  Subtracting an aware item_time
\* from the naive utcnow() raises TypeError; the first item outside the
\* window ends the loop.
RECURSIVE FilterRecent(_, _, _)
FilterRecent(history, hours_ago, recent_items) ==
    IF history = <<>> THEN [raised |-> FALSE, recent_items |-> recent_items]
    ELSE IF Head(history).date.aware THEN [raised |-> TRUE, recent_items |-> <<>>]
    ELSE IF InWindow(Head(history).date, hours_ago)
         THEN FilterRecent(Tail(history), hours_ago, Append(recent_items, Head(history)))
    ELSE [raised |-> FALSE, recent_items |-> recent_items]

Reverse(s) == [k \in 1 .. Len(s) |-> s[Len(s) + 1 - k]]
Min(x, y) == IF x <= y THEN x ELSE y

\* Faulty variant: the slice is one short, recent_items[i:i+2].
GroupShort(recent_items, i) ==
    Reverse(SubSeq(recent_items, i + 1, Min(i + ChunkSize - 1, Len(recent_items))))

\* Faulty variant: the group.reverse() is left out.
GroupNotReversed(recent_items, i) ==
    SubSeq(recent_items, i + 1, Min(i + ChunkSize, Len(recent_items)))

\* recent_items[i:i+3] followed by group.reverse() (i counts from 0).
Group(recent_items, i) ==
    Reverse(SubSeq(recent_items, i + 1, Min(i + ChunkSize, Len(recent_items))))

\* The loop for i in range(0, len(recent_items), 3): item j of the reversed
\* group goes to version_a (j = 0), version_b (j = 1) or version_c (j = 2).
RECURSIVE Distribute(_, _, _)
Distribute(recent_items, i, v) ==
    IF i >= Len(recent_items) THEN v
    ELSE LET group == Group(recent_items, i)
         IN Distribute(recent_items, i + ChunkSize,
                [a |-> IF Len(group) >= 1 THEN Append(v.a, group[1]) ELSE v.a,
                 b |-> IF Len(group) >= 2 THEN Append(v.b, group[2]) ELSE v.b,
                 c |-> IF Len(group) >= 3 THEN Append(v.c, group[3]) ELSE v.c])

EmptyVersions == [a |-> <<>>, b |-> <<>>, c |-> <<>>]
NoVersions == [none |-> TRUE, a |-> <<>>, b |-> <<>>, c |-> <<>>]

\* Faulty variant: the status code is not looked at, the body of any answer
\* is processed.
get_recent_history_any_status(response, hours_ago) ==
    IF response.raised
    THEN [versions |-> NoVersions, error |-> {"error_history"}]
    ELSE LET f == FilterRecent(SortDesc(response.history), hours_ago, <<>>)
         IN IF f.raised
            THEN [versions |-> NoVersions, error |-> {"error_history"}]
            ELSE LET v == Distribute(f.recent_items, 0, EmptyVersions)
                 IN [versions |-> [none |-> FALSE, a |-> v.a, b |-> v.b, c |-> v.c],
                     error |-> {}]

\* What get_recent_history returns (none = TRUE stands for None) and what it
\* reports with st.error.
get_recent_history(response, hours_ago) ==
    IF response.raised
    THEN [versions |-> NoVersions, error |-> {"error_history"}]
    ELSE IF response.status_code # StatusOK
    THEN [versions |-> NoVersions, error |-> {"error_api_response"}]
    ELSE LET f == FilterRecent(SortDesc(response.history), hours_ago, <<>>)
         IN IF f.raised
            THEN [versions |-> NoVersions, error |-> {"error_history"}]
            ELSE LET v == Distribute(f.recent_items, 0, EmptyVersions)
                 IN [versions |-> [none |-> FALSE, a |-> v.a, b |-> v.b, c |-> v.c],
                     error |-> {}]

\* ------------------------------------------------ download_audio_from_history
\* The audio the service holds for an item: a payload that identifies it.
AudioOf(history_item_id) == <<history_item_id>>

\* The audio call's outcomes for one item: a transport exception, a non-200
\* status, or status 200 with a body, which may be empty.
AudioResponses(history_item_id) ==
    {[raised |-> TRUE, status_code |-> 0, content |-> <<>>],
     [raised |-> FALSE, status_code |-> 404, content |-> <<>>],
     [raised |-> FALSE, status_code |-> StatusOK, content |-> <<>>],
     [raised |-> FALSE, status_code |-> StatusOK, content |-> AudioOf(history_item_id)]}

NoAudio == [none |-> TRUE, content |-> <<>>]

\* What download_audio_from_history returns (none = TRUE stands for None)
\* and what it reports with st.error.
download_audio_from_history(response) ==
    IF response.raised
    THEN [audio |-> NoAudio, error |-> {"error_download"}]
    ELSE IF response.status_code = StatusOK
    THEN [audio |-> [none |-> FALSE, content |-> response.content], error |-> {}]
    ELSE [audio |-> NoAudio, error |-> {}]

\* --------------------------------------------------------- create_version_zip
\* The archive as its list of entries, in the order written; writestr's
\* deflate and the reader's inflate are the zipfile library's and are not
\* modelled: an entry holds the payload it was given.
\* Faulty variant: enumerate(audio_files) without the start index 1.
create_version_zip_from_zero(audio_files) ==
    [k \in 1 .. Len(audio_files) |->
        [name |-> ToString(k - 1) \o ".mp3", data |-> audio_files[k]]]

create_version_zip(audio_files) ==
    [k \in 1 .. Len(audio_files) |->
        [name |-> ToString(k) \o ".mp3", data |-> audio_files[k]]]

\* ----------------------------------------------------------------- main
VARIABLES
    pc,               \* where the page's run stands
    api_key,          \* st.text_input
    hours,            \* st.number_input
    response,         \* what the history listing call answered
    history_requests, \* listing requests sent so far
    versions,         \* get_recent_history's return value
    messages,         \* st.warning / st.error / st.success shown so far
    cursor,           \* items of versions handled by the download loops
    audio_requests,   \* ids of the audio requests sent so far, in order
    audio,            \* download_audio_from_history's latest return value
    version_contents, \* the payload list of each take
    archives,         \* the ZIP behind each download button offered
    audio_files,      \* argument of a lone create_version_zip call
    zip_file          \* its result

vars == <<pc, api_key, hours, response, history_requests, versions, messages,
          cursor, audio_requests, audio, version_contents, archives,
          audio_files, zip_file>>

NoResponse == [raised |-> FALSE, status_code |-> 0, history |-> <<>>]

\* The page as rendered, before the button is pressed.
Init ==
    /\ pc = "form"
    /\ api_key = ""
    /\ hours = MinHours
    /\ response = NoResponse
    /\ history_requests = 0
    /\ versions = NoVersions
    /\ messages = {}
    /\ cursor = 0
    /\ audio_requests = <<>>
    /\ audio = NoAudio
    /\ version_contents = EmptyVersions
    /\ archives = <<>>
    /\ audio_files = <<>>
    /\ zip_file = <<>>

\* for version, items in versions.items(): for item in items: the items in
\* the order the two loops visit them, each with its take.
Queue(v) ==
    [k \in 1 .. Len(v.a) |-> [version |-> "a", item |-> v.a[k]]]
    \o [k \in 1 .. Len(v.b) |-> [version |-> "b", item |-> v.b[k]]]
    \o [k \in 1 .. Len(v.c) |-> [version |-> "c", item |-> v.c[k]]]

\* if not versions: None is falsy, the dict of three lists is not.
NotVersions(v) == v.none

\* if not any(versions.values()): the three lists are all empty.
NotAny(v) == v.a = <<>> /\ v.b = <<>> /\ v.c = <<>>

\* if audio: None and the empty bytes are falsy.
Truthy(x) == ~x.none /\ x.content # <<>>

\* Faulty variant: the append without the test of audio.
AppendAudioAlways(contents, version, x) ==
    [contents EXCEPT ![version] = Append(@, x.content)]

\* if audio: version_contents[version].append(audio)
AppendAudio(contents, version, x) ==
    IF Truthy(x) THEN [contents EXCEPT ![version] = Append(@, x.content)]
    ELSE contents

\* The button pressed with the key field empty: a warning, and the run ends.
ClickWithoutKey ==
    /\ pc = "form"
    /\ \E h \in Hours : hours' = h
    /\ api_key' = ""
    /\ messages' = messages \cup {"warn_api_key"}
    /\ pc' = "done"
    /\ UNCHANGED <<response, history_requests, versions, cursor, audio_requests,
                   audio, version_contents, archives, audio_files, zip_file>>

\* The button pressed with a key: get_recent_history is called once, and
\* main either ends on a warning or enters the download loops.
ClickRecover ==
    /\ pc = "form"
    /\ \E k \in Keys \ {""}, h \in Hours, r \in SessionResponses :
          LET got == get_recent_history(r, h)
          IN /\ api_key' = k
             /\ hours' = h
             /\ response' = r
             /\ history_requests' = history_requests + 1
             /\ versions' = got.versions
             /\ IF NotVersions(got.versions)
                THEN /\ messages' = messages \cup got.error \cup {"warn_no_audio"}
                     /\ pc' = "done"
                ELSE IF NotAny(got.versions)
                THEN /\ messages' = messages \cup got.error \cup {"warn_no_sequences"}
                     /\ pc' = "done"
                ELSE /\ messages' = messages \cup got.error
                     /\ pc' = "download"
    /\ UNCHANGED <<cursor, audio_requests, audio, version_contents, archives,
                   audio_files, zip_file>>

\* One pass of the inner loop: the next item's audio is requested and, when
\* truthy, appended to its take's list.
DownloadItem ==
    /\ pc = "download"
    /\ cursor < Len(Queue(versions))
    /\ LET q == Queue(versions)[cursor + 1]
       IN \E r \in AudioResponses(q.item.history_item_id) :
             LET got == download_audio_from_history(r)
             IN /\ audio_requests' = Append(audio_requests, q.item.history_item_id)
                /\ audio' = got.audio
                /\ messages' = messages \cup got.error
                /\ version_contents' = AppendAudio(version_contents, q.version, got.audio)
    /\ cursor' = cursor + 1
    /\ pc' = IF cursor + 1 = Len(Queue(versions)) THEN "archive" ELSE "download"
    /\ UNCHANGED <<api_key, hours, response, history_requests, versions, archives,
                   audio_files, zip_file>>

\* The takes whose payload list is not empty get a download button.
Offered(contents) == {v \in {"a", "b", "c"} : contents[v] # <<>>}

\* After the loops: one ZIP per non-empty take, then the success notice.
OfferArchives ==
    /\ pc = "archive"
    /\ archives' = [v \in Offered(version_contents) |->
                        create_version_zip(version_contents[v])]
    /\ messages' = messages \cup {"success"}
    /\ pc' = "done"
    /\ UNCHANGED <<api_key, hours, response, history_requests, versions, cursor,
                   audio_requests, audio, version_contents, audio_files, zip_file>>

Next == ClickWithoutKey \/ ClickRecover \/ DownloadItem \/ OfferArchives

Spec == Init /\ [][Next]_vars

\* ------------------------------------------- get_recent_history on its own
\* The function applied to any listing response and any window.
InitHistory ==
    /\ pc = "call"
    /\ api_key = "sk"
    /\ hours \in Hours
    /\ response \in Responses
    /\ history_requests = 0
    /\ versions = NoVersions
    /\ messages = {}
    /\ cursor = 0
    /\ audio_requests = <<>>
    /\ audio = NoAudio
    /\ version_contents = EmptyVersions
    /\ archives = <<>>
    /\ audio_files = <<>>
    /\ zip_file = <<>>

CallGetRecentHistory ==
    /\ pc = "call"
    /\ history_requests' = history_requests + 1
    /\ versions' = get_recent_history(response, hours).versions
    /\ messages' = messages \cup get_recent_history(response, hours).error
    /\ pc' = "returned"
    /\ UNCHANGED <<api_key, hours, response, cursor, audio_requests, audio,
                   version_contents, archives, audio_files, zip_file>>

NextHistory == CallGetRecentHistory

SpecHistory == InitHistory /\ [][NextHistory]_vars

\* ------------------------------------------- create_version_zip on its own
Payloads == {<<>>} \cup {<<x>> : x \in 0 .. MaxByte}
PayloadLists == UNION {[1 .. n -> Payloads] : n \in 0 .. MaxFiles}

InitZip ==
    /\ pc = "call"
    /\ api_key = ""
    /\ hours = MinHours
    /\ response = NoResponse
    /\ history_requests = 0
    /\ versions = NoVersions
    /\ messages = {}
    /\ cursor = 0
    /\ audio_requests = <<>>
    /\ audio = NoAudio
    /\ version_contents = EmptyVersions
    /\ archives = <<>>
    /\ audio_files \in PayloadLists
    /\ zip_file = <<>>

CallCreateVersionZip ==
    /\ pc = "call"
    /\ zip_file' = create_version_zip(audio_files)
    /\ pc' = "returned"
    /\ UNCHANGED <<api_key, hours, response, history_requests, versions, messages,
                   cursor, audio_requests, audio, version_contents, archives,
                   audio_files>>

NextZip == CallCreateVersionZip

SpecZip == InitZip /\ [][NextZip]_vars

\* ======================================================== properties
Range(s) == {s[k] : k \in 1 .. Len(s)}

\* get_recent_history has returned a VersionSet (not None).
Grouped == pc = "returned" /\ ~versions.none

\* The items of the listing inside the window: now - timestamp <= window.
Survivors == {x \in Range(response.history) : Now - x.date.t <= hours}

\* The items placed in some take.
Placed == Range(versions.a) \cup Range(versions.b) \cup Range(versions.c)

DistinctTimestamps ==
    \A x, y \in Range(response.history) : x # y => x.date.t # y.date.t

\* Position of x among the survivors sorted oldest first, counted from 0.
Rank(x) == Cardinality({y \in Survivors : y.date.t < x.date.t})

\* C1 (as claimed): with distinct timestamps, the survivor at position i of
\* the oldest-first order is in take a when i mod 3 = 0, in take b when
\* i mod 3 = 1 and in take c when i mod 3 = 2.
C1_OldestFirstRoundRobin ==
    (Grouped /\ DistinctTimestamps) =>
        \A x \in Survivors :
            /\ Rank(x) % ChunkSize = 0 => x \in Range(versions.a)
            /\ Rank(x) % ChunkSize = 1 => x \in Range(versions.b)
            /\ Rank(x) % ChunkSize = 2 => x \in Range(versions.c)

\* C2: once a VersionSet is returned, every survivor of the recency filter
\* occurs exactly once in a, b and c taken together, and nothing else occurs.
C2_EachSurvivorExactlyOnce ==
    Grouped =>
        LET all == versions.a \o versions.b \o versions.c
        IN /\ \A x \in Survivors :
                Cardinality({k \in 1 .. Len(all) : all[k] = x}) = 1
           /\ \A k \in 1 .. Len(all) : all[k] \in Survivors

\* A full batch was formed and one item of the listing was too old.
C2_Witness ==
    /\ Grouped
    /\ Len(versions.a) = 1 /\ Len(versions.b) = 1 /\ Len(versions.c) = 1
    /\ Cardinality(Survivors) = 3
    /\ Len(response.history) = 4

\* C3 (as claimed): within each take the items run from oldest to newest: for
\* positions p < q of one take, the item at p is not later than the item at q.
C3_TakeOldestFirst ==
    Grouped =>
        \A s \in {"a", "b", "c"} : \A p, q \in 1 .. Len(versions[s]) :
            p < q => versions[s][p].date.t <= versions[s][q].date.t

\* C4 (as claimed): for every listing the service answers with status 200, an
\* item is placed in some take if and only if now - timestamp <= window.
C4_PlacedIffInWindow ==
    (pc = "returned" /\ ~response.raised /\ response.status_code = StatusOK) =>
        \A x \in Range(response.history) :
            x \in Placed <=> Now - x.date.t <= hours

\* C9: batch k of the VersionSet is a[k], b[k], c[k] as far as present.  Each
\* batch fills a first stretch of the slots a, b, c (so the lengths obey
\* len(a) >= len(b) >= len(c) >= len(a) - 1), oldest item in a, timestamps
\* ascending along the slots.
C9_BatchFillsFirstSlots ==
    Grouped =>
        /\ Len(versions.a) >= Len(versions.b)
        /\ Len(versions.b) >= Len(versions.c)
        /\ Len(versions.c) >= Len(versions.a) - 1
        /\ \A k \in 1 .. Len(versions.b) :
              versions.a[k].date.t <= versions.b[k].date.t
        /\ \A k \in 1 .. Len(versions.c) :
              versions.b[k].date.t <= versions.c[k].date.t

\* A batch of three and a batch of one, all timestamps of the first distinct.
C9_Witness ==
    /\ Grouped
    /\ Len(versions.a) = 2 /\ Len(versions.b) = 1 /\ Len(versions.c) = 1
    /\ versions.a[1].date.t < versions.b[1].date.t
    /\ versions.b[1].date.t < versions.c[1].date.t

\* Pairs of slots, the first before the second in the order a, b, c.
SlotPairs == {<<"a", "b">>, <<"a", "c">>, <<"b", "c">>}

\* Two items of batch k with one timestamp, x in the earlier slot.
TiedInBatch(k, sp) ==
    /\ k <= Len(versions[sp[1]]) /\ k <= Len(versions[sp[2]])
    /\ versions[sp[1]][k].date.t = versions[sp[2]][k].date.t

\* C10 (as claimed): of two items with the same timestamp in one batch, the
\* one that came earlier in the fetched listing has the earlier slot.
C10_EarlierFetchedEarlierSlot ==
    Grouped =>
        \A sp \in SlotPairs : \A k \in 1 .. Len(versions.a) :
            TiedInBatch(k, sp) =>
                versions[sp[1]][k].history_item_id < versions[sp[2]][k].history_item_id

\* C10 (amended): of two items with the same timestamp in one batch, the one
\* that came earlier in the fetched listing has the later slot: the stable
\* sort keeps fetch order in the newest-first list and each group is reversed.
C10_EarlierFetchedLaterSlot ==
    Grouped =>
        \A sp \in SlotPairs : \A k \in 1 .. Len(versions.a) :
            TiedInBatch(k, sp) =>
                versions[sp[1]][k].history_item_id > versions[sp[2]][k].history_item_id

\* The two older items of a full batch share a timestamp.
C10_Witness ==
    /\ Grouped
    /\ Len(versions.c) >= 1
    /\ TiedInBatch(1, <<"a", "b">>)
    /\ versions.b[1].date.t < versions.c[1].date.t

\* The item the download loops handle next, and the list of its take with
\* payload x appended.
NextItem == Queue(versions)[cursor + 1]
WithPayload(x) ==
    [version_contents EXCEPT ![NextItem.version] = Append(@, x)]

\* What every pass of the download loops does, whatever the audio call
\* answered: the next item of the queue is requested, the loops go on to the
\* item after it, and they end only behind the last item.
LoopGoesOn ==
    /\ audio_requests' = Append(audio_requests, NextItem.item.history_item_id)
    /\ cursor' = cursor + 1
    /\ pc' = IF cursor' = Len(Queue(versions)) THEN "archive" ELSE "download"

\* What the archives hold once offered: for each take with payloads, the
\* payloads of its list, in order, as 1.mp3, 2.mp3, ...
ArchivesMatchLists ==
    /\ DOMAIN archives' = {v \in {"a", "b", "c"} : version_contents[v] # <<>>}
    /\ \A v \in DOMAIN archives' :
          /\ Len(archives'[v]) = Len(version_contents[v])
          /\ \A k \in 1 .. Len(archives'[v]) :
                /\ archives'[v][k].data = version_contents[v][k]
                /\ archives'[v][k].name = <<"1.mp3", "2.mp3", "3.mp3", "4.mp3", "5.mp3">>[k]

\* The payloads the service holds for the items of take v, in record order.
TakeAudio(v) ==
    [k \in 1 .. Len(versions[v]) |-> AudioOf(versions[v][k].history_item_id)]

\* The payload list of take v holds payloads of the take's own items, each
\* at most once and in record order.
InRecordOrder(v) ==
    LET list == version_contents[v]
        Pos(x) == CHOOSE k \in 1 .. Len(versions[v]) : TakeAudio(v)[k] = x
    IN /\ \A k \in 1 .. Len(list) : list[k] \in Range(TakeAudio(v))
       /\ \A k \in 1 .. Len(list) - 1 : Pos(list[k]) < Pos(list[k + 1])

\* C5 (as claimed): a failed audio download never aborts the session, and a
\* take's payload list grows by the payload of every download that did not
\* fail (the function returned something other than None) and by nothing
\* else, so it holds the payloads of the successfully downloaded records in
\* record order, and the archive holds them as 1.mp3, 2.mp3, ...
C5_ListIsSuccessfulPayloads ==
    [][(pc = "download" =>
            /\ LoopGoesOn
            /\ version_contents' =
                  IF ~audio'.none THEN WithPayload(audio'.content)
                  ELSE version_contents
            /\ \A v \in {"a", "b", "c"} : InRecordOrder(v)')
       /\ (pc = "archive" => ArchivesMatchLists)]_vars

\* C5 (amended): a failed audio download never aborts the session, and a
\* take's payload list grows by the payload of every download that returned
\* a non-empty payload and by nothing else (a failed download and an empty
\* payload are both skipped), so it holds the non-empty payloads of the
\* successfully downloaded records in record order, and the archive holds
\* them as 1.mp3, 2.mp3, ...
C5_ListIsNonEmptyPayloads ==
    [][(pc = "download" =>
            /\ LoopGoesOn
            /\ version_contents' =
                  IF ~audio'.none /\ audio'.content # <<>>
                  THEN WithPayload(audio'.content)
                  ELSE version_contents
            /\ \A v \in {"a", "b", "c"} : InRecordOrder(v)')
       /\ (pc = "archive" => ArchivesMatchLists)]_vars

\* Take a has three items and the download of the second failed with an
\* exception (every other item's payload is in its list, so the error shown
\* is the second item's): all seven items were still requested, the session
\* ended with the success notice, and the archive of a has two entries,
\* items 1 and 3 of the take as 1.mp3 and 2.mp3.
C5_Witness ==
    /\ pc = "done"
    /\ messages = {"error_download", "success"}
    /\ Len(versions.a) = 3 /\ Len(versions.b) = 2 /\ Len(versions.c) = 2
    /\ audio_requests =
          [k \in 1 .. Len(Queue(versions)) |-> Queue(versions)[k].item.history_item_id]
    /\ version_contents.a = <<TakeAudio("a")[1], TakeAudio("a")[3]>>
    /\ version_contents.b = TakeAudio("b")
    /\ version_contents.c = TakeAudio("c")
    /\ archives.a = <<[name |-> "1.mp3", data |-> TakeAudio("a")[1]],
                      [name |-> "2.mp3", data |-> TakeAudio("a")[3]]>>

ErrorMessages == {"error_history", "error_api_response", "error_download"}

\* The listing call was made and answered with status 200.
ListingSucceeded ==
    history_requests = 1 /\ ~response.raised /\ response.status_code = StatusOK

\* C6 (as claimed): when the listing succeeds with no item inside the window,
\* get_recent_history returns a VersionSet of three empty takes and the
\* session ends on a nothing-found warning: no error is reported, no audio
\* is requested, no archive is offered.
C6_NothingFoundIsNoError ==
    (ListingSucceeded /\ Survivors = {}) =>
        /\ ~versions.none
        /\ versions.a = <<>> /\ versions.b = <<>> /\ versions.c = <<>>
        /\ pc = "done"
        /\ "warn_no_sequences" \in messages
        /\ messages \cap ErrorMessages = {}
        /\ audio_requests = <<>>
        /\ archives = <<>>

\* The run has left the form with an empty key, or its listing call failed.
EmptyCredential == pc # "form" /\ api_key = ""
ListingFailed ==
    history_requests >= 1 /\ (response.raised \/ response.status_code # StatusOK)

\* C7: with an empty credential or a failed listing call the session has
\* halted on a message, and in no state from then on is there an audio
\* request, an archive or a second listing request.
C7_FatalErrorsHalt ==
    /\ EmptyCredential =>
          /\ pc = "done"
          /\ "warn_api_key" \in messages
          /\ history_requests = 0
    /\ ListingFailed =>
          /\ pc = "done"
          /\ versions.none
          /\ messages \cap {"error_history", "error_api_response"} # {}
          /\ "warn_no_audio" \in messages
          /\ history_requests = 1
    /\ (EmptyCredential \/ ListingFailed) =>
          /\ audio_requests = <<>>
          /\ cursor = 0
          /\ archives = <<>>
          /\ "success" \notin messages
          /\ ~ENABLED Next

\* The listing call answered 500 and the session ended on the two messages.
C7_Witness ==
    /\ pc = "done"
    /\ history_requests = 1
    /\ response.status_code = 500
    /\ messages = {"error_api_response", "warn_no_audio"}

\* Reading an archive back: the entries' contents in namelist order.
ReadZip(z) == [k \in 1 .. Len(z) |-> z[k].data]

\* C8: create_version_zip gives an archive of exactly as many entries as
\* payloads, entry k named k.mp3 and holding payload k; read back, the
\* archive yields the input sequence.
C8_ZipRoundTrip ==
    pc = "returned" =>
        /\ Len(zip_file) = Len(audio_files)
        /\ \A k \in 1 .. Len(zip_file) :
              /\ zip_file[k].name = <<"1.mp3", "2.mp3", "3.mp3", "4.mp3", "5.mp3">>[k]
              /\ zip_file[k].data = audio_files[k]
        /\ ReadZip(zip_file) = audio_files

\* Three payloads, the first two different, the third empty.
C8_Witness ==
    /\ pc = "returned"
    /\ Len(audio_files) = 3
    /\ audio_files[1] # audio_files[2]
    /\ audio_files[3] = <<>>
    /\ zip_file[3] = [name |-> "3.mp3", data |-> <<>>]
====
